---- MODULE Spec2Model ----
(***************************************************************************)
(* State-machine model of the status-polling engine of                     *)
(* telegram_tracker.py: RateLimiter, DatabaseManager (users / status       *)
(* tables) and TelegramTracker (start, stop, _tracking_loop,               *)
(* _check_all_users, _check_users_individually, _record_user_status).      *)
(*                                                                         *)
(* The engine is one asyncio task.  Code between two awaits runs without   *)
(* interleaving; another task (a caller of stop()) and the remote service  *)
(* act only while the engine task is suspended at an await.  Time is a     *)
(* discrete clock `now` in ticks (TicksPerSecond ticks per second); it     *)
(* advances while the task sleeps or waits for the remote service.         *)
(***************************************************************************)
EXTENDS Integers, Sequences, FiniteSets, TLC

\* ------------------------------------------------------------------ bounds
NumUsers == 2          \* number of tracked account ids
MaxTime == 11          \* the clock is explored up to this tick
MaxCycles == 2         \* number of fetch cycles explored
MaxQuietCycles == 4    \* ... of a run in which nothing has failed so far
MaxRate == 2           \* largest configured max_requests_per_second
MaxNetDelay == 1       \* ticks spent waiting for the remote service, in total
MaxFlood == 1          \* largest "wait N seconds" of a rate-limit signal
MaxDbErrors == 1       \* number of sqlite3.Error failures injected
MaxNetErrors == 2      \* number of remote-request failures injected
MaxChanges == 1        \* number of remote profile changes
MaxStopCalls == 2      \* calls of stop() on an engine that is not running
TicksPerSecond == 2    \* clock resolution

\* -------------------------------------------------------- program constants
interval == 1 * TicksPerSecond     \* RateLimiter.interval = 1.0 second
BackoffSeconds == 5                \* asyncio.sleep(5) of the tracking loop

\* ------------------------------------------------------------------ helpers
NULL == <<>>                       \* SQL NULL / Python None for a column value

Min2(a, b) == IF a <= b THEN a ELSE b

RECURSIVE SeqMin(_)
\* Python min() of a non-empty list
SeqMin(s) == IF Len(s) = 1 THEN s[1] ELSE Min2(s[1], SeqMin(Tail(s)))

RECURSIVE Filter(_, _, _)
\* [t for t in s if cur - t <= iv]
Filter(s, cur, iv) ==
  IF s = <<>> THEN <<>>
  ELSE IF cur - Head(s) <= iv THEN <<Head(s)>> \o Filter(Tail(s), cur, iv)
       ELSE Filter(Tail(s), cur, iv)

\* ------------------------------------------------------------ configuration
\* config['tracking']['user_ids']
user_ids == [i \in 1..NumUsers |-> i]

\* config['tracking']['check_interval']: a number of seconds, or a value that
\* is no number (the file is not validated)
CheckIntervals == {[num |-> TRUE, secs |-> 1], [num |-> FALSE, secs |-> 0]}

\* ------------------------------------------------------------ remote service
\* the status classes a profile can carry; "None" is a user without status
StatusClasses ==
  {"UserStatusOnline", "UserStatusOffline", "UserStatusRecently",
   "UserStatusLastWeek", "None"}

\* last-seen value of the one offline signal of the model
SeenAt == 1

\* a status signal: its class and, for the offline class, the last-seen value
\* (<<t>>) or an absent one (NULL)
Signals ==
  {[cls |-> c, was_online |-> NULL] : c \in StatusClasses}
    \cup {[cls |-> "UserStatusOffline", was_online |-> <<SeenAt>>]}

Names == {"a", "b"}

\* a profile: kind "User" carries username and status; kind "UserEmpty" (an
\* account the service no longer knows) carries only the id
Profiles ==
  [kind : {"User"}, username : Names, status : Signals]
    \cup {[kind |-> "UserEmpty", username |-> "a",
           status |-> [cls |-> "None", was_online |-> NULL]]}

VARIABLES
  max_requests,    \* RateLimiter.max_requests
  check_interval,  \* TelegramTracker.check_interval
  pc,              \* position of the engine task
  is_running,      \* TelegramTracker.is_running
  conn,            \* DatabaseManager.conn is not None
  connected,       \* client.is_connected()
  usersTbl,        \* table users: set of rows
  statusTbl,       \* table status: sequence of rows in insertion order
  request_times,   \* RateLimiter.request_times
  now,             \* the clock (time.time(), CURRENT_TIMESTAMP) in ticks
  wake,            \* the tick at which the pending sleep ends
  mode,            \* "batch": _check_all_users, "indiv": _check_users_individually
  users,           \* fetched items still to process (batch: the response list;
                   \* fallback: the entity fetched for user_ids[k])
  k,               \* index into user_ids of the fallback pass
  raised,          \* start() is unwinding with an exception
  spc,             \* position of another task's stop() call
  remote,          \* the remote service's profile of each account
  dbErrors,        \* sqlite3.Error failures injected so far
  netErrors,       \* remote failures injected so far
  changes,         \* remote profile changes so far
  netDelay,        \* ticks spent waiting for the remote service so far
  cycle,           \* fetch cycles started
  grants,          \* history: the clock reading of every rate limiter grant
  nreq,            \* history: remote requests issued
  ev,              \* history: the events of the current cycle
  escaped,         \* history: an exception left _check_all_users
  stopAt,          \* history: engine position when another task called stop()
  tables,          \* the tables that exist in the database file
  calls,           \* history: calls of stop() made in a row on an engine that
                   \* is not running
  disconnects,     \* history: calls of client.disconnect()
  closes,          \* history: calls of conn.close()
  errs,            \* history: failures raised or detected so far
  diags,           \* history: error and warning records written to the log
  answered,        \* the outcome of the pending request has arrived, the engine
                   \* task has not been resumed yet
  cancelAt         \* history: the position at which the engine task was
                   \* cancelled, "none" if it was not

vars ==
  <<max_requests, check_interval, pc, is_running, conn, connected, usersTbl,
    statusTbl, request_times, now, wake, mode, users, k, raised, spc, remote,
    dbErrors, netErrors, changes, netDelay, cycle, grants, nreq, ev, escaped,
    stopAt, tables, calls, disconnects, closes, errs, diags, answered,
    cancelAt>>

\* ------------------------------------------------------------- exceptions
FloodWaitError(n) == [cls |-> "FloodWaitError", seconds |-> n]
RPCError == [cls |-> "RPCError", seconds |-> 0]
\* any other Exception: ConnectionError, ValueError, AttributeError, ...
OtherError(c) == [cls |-> c, seconds |-> 0]

\* the failures the remote service can answer a request with
RemoteErrors ==
  {FloodWaitError(n) : n \in 1..MaxFlood} \cup {RPCError, OtherError("Exception")}

\* isinstance(e, RPCError): FloodWaitError is a subclass of RPCError
IsRPCError(e) == e.cls \in {"RPCError", "FloodWaitError"}

\* ------------------------------------------------------------ history events
\* op: "begin" (n: status rows at cycle start), "grant", "batch" / "indiv"
\* (a remote request and its result; n: the seconds of a rate-limit signal),
\* "fallback", "upsert" / "append" (a store
\* write and its result; n: row id), "skip" (an item abandoned on an error),
\* "sleep" (rate-limit signal, n: seconds), "return"
Ev(op, id, res, n, t) == [op |-> op, id |-> id, res |-> res, n |-> n, at |-> t]

\* ------------------------------------------------------------- RateLimiter
\* self.request_times = [t for t in self.request_times if current_time - t <= self.interval]
Pruned(times, current_time) == Filter(times, current_time, interval)

\* len(self.request_times) >= self.max_requests
LimitReached(times) == Len(times) >= max_requests

\* wait_time = self.interval - (current_time - oldest_request)
WaitTime(times, current_time) == interval - (current_time - SeqMin(times))

\* ---------------------------------------------------------- DatabaseManager
\* variant: the write methods do not test the handle
NoConn_Unchecked(c) == FALSE

\* "if not self.conn:" at the top of update_user and of record_status
NoConn(c) == ~c

UserRow(u, t) == [id |-> u.id, username |-> u.profile.username, updated_at |-> t]

\* variant: update_user always INSERTs
Upsert_InsertOnly(tbl, u, t) == tbl \cup {UserRow(u, t)}

\* update_user: UPDATE the row of user.id if the SELECT finds one, else INSERT
Upsert(tbl, u, t) ==
  IF \E r \in tbl : r.id = u.id
    THEN {r \in tbl : r.id # u.id} \cup {UserRow(u, t)}
    ELSE tbl \cup {UserRow(u, t)}

\* variant: update_user re-raises the sqlite3.Error after the rollback
UpdateUserExcept_Reraise == "reraise"

\* "except sqlite3.Error" of update_user: log and rollback, nothing is re-raised
UpdateUserExcept == "rollback"

\* "except sqlite3.Error" of record_status: log and rollback
RecordStatusExcept == "rollback"

\* variant: a row whose tag repeats the account's latest row is not inserted
Inserted_Dedup(tbl, row) ==
  LET prev == {i \in DOMAIN tbl : tbl[i].user_id = row.user_id} IN
    IF prev # {} /\ tbl[CHOOSE i \in prev : \A j \in prev : j <= i].status = row.status
      THEN tbl ELSE Append(tbl, row)

\* INSERT INTO status: the row is appended, whatever the rows before it
Inserted(tbl, row) == Append(tbl, row)

\* datetime.isoformat(): the text stored for a last-seen value
IsoFormat(dt) == <<"iso", dt>>

\* variant: an offline row is stamped with its last-seen value
StatusRow_SeenStamp(tbl, user_id, status, was_online, t) ==
  [id |-> Len(tbl) + 1, user_id |-> user_id, status |-> status,
   was_online |-> IF was_online # NULL THEN IsoFormat(was_online[1]) ELSE NULL,
   recorded_at |-> IF was_online # NULL THEN was_online[1] ELSE t]

\* record_status: "if was_online:" chooses between the two INSERT statements
StatusRow(tbl, user_id, status, was_online, t) ==
  [id |-> Len(tbl) + 1, user_id |-> user_id, status |-> status,
   was_online |-> IF was_online # NULL THEN IsoFormat(was_online[1]) ELSE NULL,
   recorded_at |-> t]

\* ------------------------------------------------------- _record_user_status
\* variant: a status of no known class is tagged with its class name
StatusStr_ClassName(status_obj) ==
  IF status_obj.cls = "UserStatusOnline" THEN "online"
  ELSE IF status_obj.cls = "UserStatusOffline" THEN "offline"
  ELSE IF status_obj.cls = "UserStatusRecently" THEN "recently"
  ELSE status_obj.cls

\* the status tag and last-seen value derived from user.status
StatusStr(status_obj) ==
  IF status_obj.cls = "UserStatusOnline" THEN "online"
  ELSE IF status_obj.cls = "UserStatusOffline" THEN "offline"
  ELSE IF status_obj.cls = "UserStatusRecently" THEN "recently"
  ELSE "unknown"

WasOnline(status_obj) ==
  IF status_obj.cls = "UserStatusOffline" THEN status_obj.was_online ELSE NULL

\* --------------------------------------------------- control of the engine
\* where the engine task continues: position, mode, fallback index, end of
\* the pending sleep, whether an exception left _check_all_users, and the
\* events to record
Ctl(p, m, kk, w, esc, evs) ==
  [pc |-> p, mode |-> m, k |-> kk, wake |-> w, escaped |-> esc, evs |-> evs]

\* variant: instead of returning, _check_all_users starts over
Return_Reissue(t, evs) ==
  Ctl("rl", "batch", 0, 0, FALSE, evs)

\* _check_all_users returns to _tracking_loop at time t
Return(t, evs) ==
  Ctl("after_check", "batch", 0, 0, FALSE, evs \o <<Ev("return", 0, "", 0, t)>>)

\* variant: the fallback pass issues its requests without the rate limiter
NextId_NoLimiter(kk, t, evs) ==
  IF kk < Len(user_ids)
    THEN Ctl("req", "indiv", kk + 1, 0, FALSE, evs)
    ELSE Return(t, evs)

\* "for user_id in self.user_ids": the iteration after index kk, or the end
NextId(kk, t, evs) ==
  IF kk < Len(user_ids)
    THEN Ctl("rl", "indiv", kk + 1, 0, FALSE, evs)
    ELSE Return(t, evs)

\* variant: _check_all_users without its "except Exception" clause
BatchCatch_NoCatchAll(e) ==
  IF e.cls = "FloodWaitError" THEN "flood"
  ELSE IF IsRPCError(e) THEN "rpc"
  ELSE "propagate"

\* variant: _check_all_users without its "except RPCError" clause
BatchCatch_NoRpcClause(e) ==
  IF e.cls = "FloodWaitError" THEN "flood" ELSE "fallback"

\* variant: _check_all_users without its "except FloodWaitError" clause, the
\* rate-limit signal handled as any other failure
BatchCatch_FloodFallsBack(e) ==
  IF e.cls = "RPCError" THEN "rpc" ELSE "fallback"

\* the except clauses of _check_all_users, in order
BatchCatch(e) ==
  IF e.cls = "FloodWaitError" THEN "flood"
  ELSE IF IsRPCError(e) THEN "rpc"
  ELSE "fallback"

\* variant: _check_users_individually without its "except RPCError" clause
\* and with an "except Exception" that re-raises
IndivCatch_RpcPropagates(e) ==
  IF e.cls = "FloodWaitError" THEN "flood"
  ELSE IF IsRPCError(e) THEN "propagate"
  ELSE "other"

\* variant: _check_users_individually without its "except FloodWaitError"
\* clause: the rate-limit signal is caught as an RPCError
IndivCatch_NoFloodClause(e) ==
  IF IsRPCError(e) THEN "rpc" ELSE "other"

\* the except clauses of the loop body of _check_users_individually, in order
IndivCatch(e) ==
  IF e.cls = "FloodWaitError" THEN "flood"
  ELSE IF IsRPCError(e) THEN "rpc"
  ELSE "other"

\* variant: no handler around the processing of one item of the batch response
BatchItemCatch_Propagate(e) == "propagate"

\* "except Exception" around the processing of one item of the batch response
BatchItemCatch(e) == "skip"

\* exception e raised at time t inside the try block of the current mode
Handle(e, t, evs) ==
  IF mode = "batch"
    THEN CASE BatchCatch(e) = "flood" ->
                Ctl("flood_sleep", "batch", 0, t + e.seconds * TicksPerSecond, FALSE,
                    evs \o <<Ev("sleep", 0, "batch", e.seconds, t)>>)
           [] BatchCatch(e) = "rpc" -> Return(t, evs)
           [] BatchCatch(e) = "fallback" ->
                NextId(0, t, evs \o <<Ev("fallback", 0, e.cls, 0, t)>>)
           [] OTHER -> Ctl("loop_except", "batch", 0, 0, TRUE, evs)
    ELSE CASE IndivCatch(e) = "flood" ->
                Ctl("flood_sleep", "indiv", k, t + e.seconds * TicksPerSecond, FALSE,
                    evs \o <<Ev("sleep", user_ids[k], "indiv", e.seconds, t)>>)
           [] IndivCatch(e) \in {"rpc", "other"} -> NextId(k, t, evs)
           [] OTHER -> Ctl("loop_except", "batch", 0, 0, TRUE, evs)

\* the item just processed is done: the next item, the next id or the end
ItemDone(t, evs) ==
  IF Tail(users) # <<>> THEN Ctl("upd", mode, k, 0, FALSE, evs)
  ELSE IF mode = "batch" THEN Return(t, evs)
  ELSE NextId(k, t, evs)

\* exception e raised while processing an item
ItemRaise(e, t, evs) ==
  IF mode = "batch"
    THEN IF BatchItemCatch(e) = "skip" THEN ItemDone(t, evs) ELSE Handle(e, t, evs)
    ELSE Handle(e, t, evs)

\* variant: the handler around one item of the batch response logs nothing
Logged_SilentItem(site) == IF site = "item" THEN 0 ELSE 1

\* the records the error handling at a site writes (logger.error, or
\* logger.warning for a rate-limit signal): one at every site
Logged(site) == 1

\* the records written for exception e raised in the try block of the current
\* mode; an exception no clause catches is logged by the loop's handler
HandleLogs(e) ==
  LET site == IF mode = "batch" THEN BatchCatch(e) ELSE IndivCatch(e) IN
    IF site \in {"flood", "rpc", "fallback", "other"} THEN Logged(site) ELSE 0

\* the records written for exception e raised while processing an item
ItemRaiseLogs(e) ==
  IF mode = "batch" /\ BatchItemCatch(e) = "skip" THEN Logged("item") ELSE HandleLogs(e)

\* a step in which something fails and d records are written
Fail(d) ==
  /\ errs' = errs + 1
  /\ diags' = diags + d

\* a step in which nothing fails
NoFail == UNCHANGED <<errs, diags>>

Apply(c) ==
  /\ pc' = c.pc
  /\ mode' = c.mode
  /\ k' = c.k
  /\ wake' = c.wake
  /\ escaped' = (escaped \/ c.escaped)
  /\ ev' = ev \o c.evs

\* the positions at which the engine task is suspended at an await
Suspended ==
  {"connect", "rl_sleep", "req", "flood_sleep", "sleeping", "backoff", "stop_disc"}

\* the suspension points inside _tracking_loop
LoopSuspended == {"rl_sleep", "req", "flood_sleep", "sleeping", "backoff"}

\* profiles the service holds when the engine starts: one account has any
\* profile, the others are plain online users
InitProfiles == {p \in Profiles : p.username = "a"}
DefaultProfile ==
  [kind |-> "User", username |-> "a",
   status |-> [cls |-> "UserStatusOnline", was_online |-> NULL]]
InitRemotes ==
  {r \in [1..NumUsers -> InitProfiles] :
     \E i \in 1..NumUsers : \A j \in 1..NumUsers \ {i} : r[j] = DefaultProfile}

Init ==
  /\ max_requests \in 0..MaxRate
  /\ check_interval \in CheckIntervals
  /\ pc = "Idle"
  /\ is_running = FALSE
  /\ conn = FALSE
  /\ connected = FALSE
  /\ usersTbl = {}
  /\ statusTbl = <<>>
  /\ request_times = <<>>
  /\ now = 0
  /\ wake = 0
  /\ mode = "batch"
  /\ users = <<>>
  /\ k = 0
  /\ raised = FALSE
  /\ spc = "none"
  /\ remote \in InitRemotes
  /\ dbErrors = 0
  /\ netErrors = 0
  /\ changes = 0
  /\ netDelay = 0
  /\ cycle = 0
  /\ grants = <<>>
  /\ nreq = 0
  /\ ev = <<>>
  /\ escaped = FALSE
  /\ stopAt = "none"
  /\ tables = {}
  /\ calls = 0
  /\ disconnects = 0
  /\ closes = 0
  /\ errs = 0
  /\ diags = 0
  /\ answered = FALSE
  /\ cancelAt = "none"

\* ------------------------------------------------------------------ start()
\* variant: CREATE TABLE on a table dropped first
CreateIfNotExists_Recreate(exists, rows, empty) == empty

\* CREATE TABLE IF NOT EXISTS: the rows of a table that exists are kept, a
\* table that does not exist is created empty
CreateIfNotExists(exists, rows, empty) == IF exists THEN rows ELSE empty

\* variant: is_running is set before the session is connected
RunningAfter_Initialize(step) == TRUE

\* "self.is_running = True" is reached when step "client.start" has returned,
\* not yet when only "initialize" has
RunningAfter(step) == step = "client.start"

\* db_manager.initialize(), then the task awaits client.start()
Start ==
  /\ pc = "Idle"
  /\ calls' = 0
  /\ \/ /\ conn' = TRUE
        /\ tables' = {"users", "status"}
        /\ usersTbl' = CreateIfNotExists("users" \in tables, usersTbl, {})
        /\ statusTbl' = CreateIfNotExists("status" \in tables, statusTbl, <<>>)
        /\ is_running' = (is_running \/ RunningAfter("initialize"))
        /\ pc' = "connect"
        /\ NoFail
        /\ UNCHANGED <<raised, dbErrors>>
     \/ /\ dbErrors < MaxDbErrors          \* sqlite3.Error: logged and re-raised
        /\ dbErrors' = dbErrors + 1
        /\ Fail(Logged("initialize") + Logged("start"))
        \* sqlite3.connect() failed, or a CREATE TABLE, or the commit
        /\ \E c \in BOOLEAN :
             \E t \in {tables, tables \cup {"users"}, tables \cup {"users", "status"}} :
               /\ ~c => t = tables
               /\ conn' = c
               /\ tables' = t
        /\ raised' = TRUE
        /\ pc' = "stop"
        /\ UNCHANGED <<usersTbl, statusTbl, is_running>>
  /\ UNCHANGED <<max_requests, check_interval, connected, request_times, now, wake, mode, users, k, spc, remote,
                 netErrors, changes, cycle, grants, nreq, ev, escaped, stopAt,
                 netDelay,
                 disconnects, closes>>

  /\ UNCHANGED <<answered, cancelAt>>
\* client.start() completes; is_running = True; _tracking_loop() is entered
Connect ==
  /\ pc = "connect"
  /\ \/ /\ connected' = TRUE
        /\ is_running' = (is_running \/ RunningAfter("client.start"))
        /\ pc' = "loop"
        /\ NoFail
        /\ UNCHANGED <<raised, netErrors>>
     \/ /\ netErrors < MaxNetErrors
        /\ netErrors' = netErrors + 1
        /\ Fail(Logged("start"))
        /\ connected' \in BOOLEAN
        /\ raised' = TRUE
        /\ pc' = "stop"
        /\ UNCHANGED is_running
  /\ UNCHANGED <<max_requests, check_interval, conn, usersTbl, statusTbl,
                 request_times, now, wake, mode, users, k, spc, remote, dbErrors,
                 changes, cycle, grants, nreq, ev, escaped, stopAt,
                 netDelay,
                 calls, disconnects, closes, tables>>

  /\ UNCHANGED <<answered, cancelAt>>
\* ----------------------------------------------------------- _tracking_loop
\* variant: "while True"
LoopCondition_Always == TRUE

\* "while self.is_running"
LoopCondition == is_running

\* nothing has failed or been delayed so far, and nobody has called stop()
Quiet ==
  /\ check_interval.num
  /\ dbErrors = 0
  /\ netErrors = 0
  /\ netDelay = 0
  /\ changes = 0
  /\ stopAt = "none"

\* variant: a timer starts the next cycle while the previous one is suspended
CycleStart_Timer == {"loop", "rl_sleep", "req", "flood_sleep"}

\* a cycle starts only at the loop test, which is reached only after the
\* awaited _check_all_users and the awaited sleep have finished
CycleStart == {"loop"}

\* the loop test: enter _check_all_users, or leave the loop
LoopTest ==
  /\ pc \in CycleStart
  /\ IF LoopCondition
       THEN /\ cycle < (IF Quiet THEN MaxQuietCycles ELSE MaxCycles)
            /\ cycle' = cycle + 1
            /\ ev' = <<Ev("begin", 0, "", Len(statusTbl), now)>>
            /\ pc' = "rl"
       ELSE /\ pc' = "stop"
            /\ UNCHANGED <<cycle, ev>>
  /\ mode' = "batch"
  /\ UNCHANGED <<max_requests, check_interval, is_running, conn, connected,
                 usersTbl, statusTbl, request_times, now, wake, users, k, raised,
                 spc, remote, dbErrors, netErrors, changes, grants, nreq, escaped,
                 stopAt,
                 netDelay,
                 calls, disconnects, closes, tables,
                 errs, diags>>

  /\ UNCHANGED <<answered, cancelAt>>
\* variant: a sleep that ends one tick late
SleepUntil_Late(t, secs) == t + secs * TicksPerSecond + 1

\* asyncio.sleep(secs) called at time t ends at
SleepUntil(t, secs) == t + secs * TicksPerSecond

\* _check_all_users has returned: asyncio.sleep(self.check_interval) is called
AfterCheck ==
  /\ pc = "after_check"
  /\ IF check_interval.num
       THEN /\ pc' = "sleeping"
            /\ wake' = SleepUntil(now, check_interval.secs)
            /\ NoFail
       ELSE /\ pc' = "loop_except"       \* TypeError of asyncio.sleep
            /\ Fail(0)                   \* logged by the handler, next
            /\ UNCHANGED wake
  /\ UNCHANGED <<max_requests, check_interval, is_running, conn, connected,
                 usersTbl, statusTbl, request_times, now, mode, users, k, raised,
                 spc, remote, dbErrors, netErrors, changes, cycle, grants, nreq,
                 ev, escaped, stopAt,
                 netDelay,
                 calls, disconnects, closes, tables>>

  /\ UNCHANGED <<answered, cancelAt>>
\* the interval sleep ends
IntervalSleepDone ==
  /\ pc = "sleeping"
  /\ wake <= MaxTime
  /\ now' = wake
  /\ pc' = "loop"
  /\ UNCHANGED <<max_requests, check_interval, is_running, conn, connected,
                 usersTbl, statusTbl, request_times, wake, mode, users, k, raised,
                 spc, remote, dbErrors, netErrors, changes, cycle, grants, nreq,
                 ev, escaped, stopAt,
                 netDelay,
                 calls, disconnects, closes, tables,
                 errs, diags>>

  /\ UNCHANGED <<answered, cancelAt>>
\* variant: the loop's handler sleeps the check interval
LoopExceptSleep_Interval == check_interval.secs

\* the seconds the loop's handler sleeps
LoopExceptSleep == BackoffSeconds

\* variant: the loop's "except Exception" leaves the loop
LoopExceptNext_Break == "break"

\* the loop's "except Exception" sleeps and lets the while loop continue
LoopExceptNext == "continue"

\* "except Exception" of the loop: log, then asyncio.sleep(5)
LoopExcept ==
  /\ pc = "loop_except"
  /\ pc' = IF LoopExceptNext = "continue" THEN "backoff" ELSE "stop"
  /\ wake' = SleepUntil(now, LoopExceptSleep)
  /\ diags' = diags + Logged("loop")
  /\ UNCHANGED errs
  /\ UNCHANGED <<max_requests, check_interval, is_running, conn, connected,
                 usersTbl, statusTbl, request_times, now, mode, users, k, raised,
                 spc, remote, dbErrors, netErrors, changes, cycle, grants, nreq,
                 ev, escaped, stopAt,
                 netDelay,
                 calls, disconnects, closes, tables>>

  /\ UNCHANGED <<answered, cancelAt>>
\* the backoff sleep ends
BackoffDone ==
  /\ pc = "backoff"
  /\ wake <= MaxTime
  /\ now' = wake
  /\ pc' = "loop"
  /\ UNCHANGED <<max_requests, check_interval, is_running, conn, connected,
                 usersTbl, statusTbl, request_times, wake, mode, users, k, raised,
                 spc, remote, dbErrors, netErrors, changes, cycle, grants, nreq,
                 ev, escaped, stopAt,
                 netDelay,
                 calls, disconnects, closes, tables,
                 errs, diags>>

  /\ UNCHANGED <<answered, cancelAt>>
\* ------------------------------------------------- RateLimiter.wait_if_needed
\* the call up to its await (or to its end when it does not sleep)
WaitIfNeeded ==
  /\ pc = "rl"
  /\ LET kept == Pruned(request_times, now) IN
       /\ request_times' =
            IF LimitReached(kept) /\ (kept = <<>> \/ WaitTime(kept, now) > 0)
              THEN kept ELSE Append(kept, now)
       /\ IF LimitReached(kept)
            THEN IF kept = <<>>
                   THEN \* min() of an empty list: ValueError
                        /\ Apply(Handle(OtherError("ValueError"), now, <<>>))
                        /\ Fail(HandleLogs(OtherError("ValueError")))
                        /\ UNCHANGED grants
                   ELSE IF WaitTime(kept, now) > 0
                     THEN /\ pc' = "rl_sleep"
                          /\ wake' = now + WaitTime(kept, now)
                          /\ NoFail
                          /\ UNCHANGED <<mode, k, escaped, ev, grants>>
                     ELSE /\ pc' = "req"
                          /\ grants' = Append(grants, now)
                          /\ ev' = Append(ev, Ev("grant", 0, "", 0, now))
                          /\ NoFail
                          /\ UNCHANGED <<mode, k, escaped, wake>>
            ELSE /\ pc' = "req"
                 /\ grants' = Append(grants, now)
                 /\ ev' = Append(ev, Ev("grant", 0, "", 0, now))
                 /\ NoFail
                 /\ UNCHANGED <<mode, k, escaped, wake>>
  /\ UNCHANGED <<max_requests, check_interval, is_running, conn, connected,
                 usersTbl, statusTbl, now, users, raised, spc, remote, dbErrors,
                 netErrors, changes, cycle, nreq, stopAt,
                 netDelay,
                 calls, disconnects, closes, tables>>

  /\ UNCHANGED <<answered, cancelAt>>
\* asyncio.sleep(wait_time) ends; self.request_times.append(time.time())
RateSleepDone ==
  /\ pc = "rl_sleep"
  /\ wake <= MaxTime
  /\ now' = wake
  /\ request_times' = Append(request_times, wake)
  /\ grants' = Append(grants, wake)
  /\ ev' = Append(ev, Ev("grant", 0, "", 0, wake))
  /\ pc' = "req"
  /\ UNCHANGED <<max_requests, check_interval, is_running, conn, connected,
                 usersTbl, statusTbl, wake, mode, users, k, raised, spc, remote,
                 dbErrors, netErrors, changes, cycle, nreq, escaped, stopAt,
                 netDelay,
                 calls, disconnects, closes, tables,
                 errs, diags>>

  /\ UNCHANGED <<answered, cancelAt>>
\* ------------------------------------------------------------ remote request
\* what the service answers for the ids of the pending request
Response ==
  IF mode = "batch"
    THEN [i \in 1..Len(user_ids) |->
            [id |-> user_ids[i], profile |-> remote[user_ids[i]]]]
    ELSE <<[id |-> user_ids[k], profile |-> remote[user_ids[k]]]>>

RECURSIVE Reversed(_)
Reversed(s) == IF s = <<>> THEN <<>> ELSE Append(Reversed(Tail(s)), Head(s))

\* variant: "for user in reversed(users)"
Items_Reversed(resp) == Reversed(resp)

\* "for user in users": the items of a response in the order they are processed
Items(resp) == resp

ReqOp == IF mode = "batch" THEN "batch" ELSE "indiv"
ReqId == IF mode = "batch" THEN 0 ELSE user_ids[k]

\* client(GetUsersRequest(id=self.user_ids)) / client.get_entity(user_id)
\* completes after d ticks with a response or an exception
Request ==
  /\ pc = "req"
  /\ \E d \in 0..(MaxNetDelay - netDelay) :
       /\ now + d <= MaxTime
       /\ now' = now + d
       /\ netDelay' = netDelay + d
       /\ nreq' = nreq + 1
       /\ IF ~connected /\ ~answered
            THEN \* "Cannot send requests while disconnected"
                 /\ Apply(Handle(OtherError("ConnectionError"), now + d,
                                 <<Ev(ReqOp, ReqId, "ConnectionError", 0, now)>>))
                 /\ users' = <<>>
                 /\ Fail(HandleLogs(OtherError("ConnectionError")))
                 /\ UNCHANGED netErrors
            ELSE \/ /\ users' = Items(Response)
                    /\ pc' = "upd"
                    /\ ev' = Append(ev, Ev(ReqOp, ReqId, "ok", 0, now))
                    /\ NoFail
                    /\ UNCHANGED <<mode, k, wake, escaped, netErrors>>
                 \/ \E e \in RemoteErrors :
                      /\ netErrors < MaxNetErrors
                      /\ netErrors' = netErrors + 1
                      /\ Apply(Handle(e, now + d, <<Ev(ReqOp, ReqId, e.cls, e.seconds, now)>>))
                      /\ Fail(HandleLogs(e))
                      /\ users' = <<>>
  /\ UNCHANGED <<max_requests, check_interval, is_running, conn, connected,
                 usersTbl, statusTbl, request_times, raised, spc, remote,
                 dbErrors, changes, cycle, grants, stopAt,
                 calls, disconnects, closes, tables>>

  /\ answered' = FALSE
  /\ UNCHANGED cancelAt
\* the sleep ordered by a rate-limit signal ends
FloodSleepDone ==
  /\ pc = "flood_sleep"
  /\ wake <= MaxTime
  /\ now' = wake
  /\ Apply(IF mode = "batch" THEN Return(wake, <<>>) ELSE NextId(k, wake, <<>>))
  /\ UNCHANGED <<max_requests, check_interval, is_running, conn, connected,
                 usersTbl, statusTbl, request_times, users, raised, spc, remote,
                 dbErrors, netErrors, changes, cycle, grants, nreq, stopAt,
                 netDelay,
                 calls, disconnects, closes, tables,
                 errs, diags>>

  /\ UNCHANGED <<answered, cancelAt>>
\* ------------------------------------------- DatabaseManager.update_user(user)
UpdateUser ==
  /\ pc = "upd"
  /\ LET u == Head(users) IN
       IF NoConn(conn)
         THEN \* "Database connection not initialized": logged, return
              /\ pc' = "rec"
              /\ ev' = Append(ev, Ev("upsert", u.id, "noconn", 0, now))
              /\ Fail(Logged("noconn"))
              /\ UNCHANGED <<usersTbl, dbErrors, users, mode, k, wake, escaped>>
         ELSE IF u.profile.kind = "UserEmpty"
           THEN \* user.username: AttributeError, no statement was executed
                /\ Apply(ItemRaise(OtherError("AttributeError"), now,
                                   <<Ev("skip", u.id, "upsert", 0, now)>>))
                /\ Fail(ItemRaiseLogs(OtherError("AttributeError")))
                /\ users' = IF pc' = "upd" THEN Tail(users) ELSE <<>>
                /\ UNCHANGED <<usersTbl, dbErrors>>
           ELSE \/ /\ usersTbl' = Upsert(usersTbl, u, now)     \* commit
                   /\ pc' = "rec"
                   /\ ev' = Append(ev, Ev("upsert", u.id, "ok", 0, now))
                   /\ NoFail
                   /\ UNCHANGED <<dbErrors, users, mode, k, wake, escaped>>
                \/ /\ dbErrors < MaxDbErrors      \* sqlite3.Error
                   /\ dbErrors' = dbErrors + 1
                   /\ Fail(Logged("update_user")
                           + (IF UpdateUserExcept = "rollback" THEN 0
                              ELSE ItemRaiseLogs(OtherError("sqlite3.Error"))))
                   /\ UNCHANGED usersTbl
                   /\ IF UpdateUserExcept = "rollback"
                        THEN /\ pc' = "rec"
                             /\ ev' = Append(ev, Ev("upsert", u.id, "sqlerr", 0, now))
                             /\ UNCHANGED <<users, mode, k, wake, escaped>>
                        ELSE /\ Apply(ItemRaise(OtherError("sqlite3.Error"), now,
                                        <<Ev("upsert", u.id, "sqlerr", 0, now)>>))
                             /\ users' = IF pc' = "upd" THEN Tail(users) ELSE <<>>
  /\ UNCHANGED <<max_requests, check_interval, is_running, conn, connected,
                 statusTbl, request_times, now, raised, spc, remote, netErrors,
                 changes, cycle, grants, nreq, stopAt,
                 netDelay,
                 calls, disconnects, closes, tables>>

  /\ UNCHANGED <<answered, cancelAt>>
\* --------------- _record_user_status(user) and DatabaseManager.record_status
RecordUserStatus ==
  /\ pc = "rec"
  /\ LET u == Head(users)
         status_str == StatusStr(u.profile.status)
         was_online == WasOnline(u.profile.status)
         row == StatusRow(statusTbl, u.id, status_str, was_online, now)
     IN
       IF u.profile.kind = "UserEmpty"
         THEN \* user.status: AttributeError
              /\ Apply(ItemRaise(OtherError("AttributeError"), now,
                                 <<Ev("skip", u.id, "append", 0, now)>>))
              /\ Fail(ItemRaiseLogs(OtherError("AttributeError")))
              /\ users' = IF pc' = "upd" THEN Tail(users) ELSE <<>>
              /\ UNCHANGED <<statusTbl, dbErrors>>
         ELSE /\ \/ /\ NoConn(conn)           \* logged, return
                    /\ Apply(ItemDone(now, <<Ev("append", u.id, "noconn", 0, now)>>))
                    /\ Fail(Logged("noconn"))
                    /\ UNCHANGED <<statusTbl, dbErrors>>
                 \/ /\ ~NoConn(conn)          \* INSERT, commit
                    /\ statusTbl' = Inserted(statusTbl, row)
                    /\ Apply(ItemDone(now, <<Ev("append", u.id, "ok", row.id, now)>>))
                    /\ NoFail
                    /\ UNCHANGED dbErrors
                 \/ /\ ~NoConn(conn)          \* sqlite3.Error
                    /\ dbErrors < MaxDbErrors
                    /\ dbErrors' = dbErrors + 1
                    /\ Fail(Logged("record_status")
                            + (IF RecordStatusExcept = "rollback" THEN 0
                               ELSE ItemRaiseLogs(OtherError("sqlite3.Error"))))
                    /\ Apply(IF RecordStatusExcept = "rollback"
                               THEN ItemDone(now, <<Ev("append", u.id, "sqlerr", 0, now)>>)
                               ELSE ItemRaise(OtherError("sqlite3.Error"), now,
                                              <<Ev("append", u.id, "sqlerr", 0, now)>>))
                    /\ UNCHANGED statusTbl
              /\ users' = IF pc' = "upd" THEN Tail(users) ELSE <<>>
  /\ UNCHANGED <<max_requests, check_interval, is_running, conn, connected,
                 usersTbl, request_times, now, raised, spc, remote, netErrors,
                 changes, cycle, grants, nreq, stopAt,
                 netDelay,
                 calls, disconnects, closes, tables>>

  /\ UNCHANGED <<answered, cancelAt>>
\* ------------------------------------------------------------------- stop()
\* variant: stop() leaves is_running as it is
Cleared_Kept(r) == r

\* "self.is_running = False", the first statement of stop()
Cleared(r) == FALSE

\* variant: stop() disconnects whatever the state of the session
is_connected_Always == TRUE

\* variant: stop() never disconnects
is_connected_Never == FALSE

\* self.client.is_connected()
is_connected == connected

\* variant: close() leaves the handle as it is
close_Leak(c) == c

\* DatabaseManager.close(): the handle afterwards ("self.conn = None")
close(c) == FALSE

\* DatabaseManager.close(): conn.close() is called only "if self.conn"
Closes(c) == IF c THEN 1 ELSE 0

\* stop() called by start()'s finally clause, up to "await client.disconnect()"
Stop ==
  /\ pc = "stop"
  /\ is_running' = Cleared(is_running)
  /\ IF is_connected
       THEN /\ pc' = "stop_disc"
            /\ disconnects' = disconnects + 1
            /\ UNCHANGED <<conn, closes>>
       ELSE /\ conn' = close(conn)         \* db_manager.close()
            /\ closes' = closes + Closes(conn)
            /\ pc' = "Stopped"
            /\ UNCHANGED disconnects
  /\ UNCHANGED <<max_requests, check_interval, connected, usersTbl, statusTbl,
                 request_times, now, wake, mode, users, k, raised, spc, remote,
                 dbErrors, netErrors, changes, cycle, grants, nreq, ev, escaped,
                 stopAt,
                 netDelay,
                 calls, tables,
                 errs, diags>>

  /\ UNCHANGED <<answered, cancelAt>>
\* client.disconnect() completes; db_manager.close()
StopDisconnected ==
  /\ pc = "stop_disc"
  /\ connected' = FALSE
  /\ conn' = close(conn)
  /\ closes' = closes + Closes(conn)
  /\ pc' = "Stopped"
  /\ UNCHANGED <<max_requests, check_interval, is_running, usersTbl, statusTbl,
                 request_times, now, wake, mode, users, k, raised, spc, remote,
                 dbErrors, netErrors, changes, cycle, grants, nreq, ev, escaped,
                 stopAt,
                 netDelay,
                 calls, disconnects, tables,
                 errs, diags>>

  /\ UNCHANGED <<answered, cancelAt>>
\* client.disconnect() raises: stop() ends at line 360, before
\* db_manager.close(); the exception leaves start()'s finally clause, and
\* main() does not call stop() again because is_running is False
StopDisconnectFails ==
  /\ pc = "stop_disc"
  /\ pc' = "StopFailed"
  /\ connected' \in BOOLEAN
  /\ raised' = TRUE
  /\ Fail(0)
  /\ UNCHANGED <<max_requests, check_interval, is_running, conn, usersTbl,
                 statusTbl, request_times, now, wake, mode, users, k, spc,
                 remote, dbErrors, netErrors, changes, netDelay, cycle, grants,
                 nreq, ev, escaped, stopAt, tables, calls, disconnects, closes,
                 answered, cancelAt>>

\* another task calls stop() while the engine task is suspended in the loop
ExtStop ==
  /\ spc = "none"
  /\ pc \in LoopSuspended
  /\ is_running' = Cleared(is_running)
  /\ stopAt' = pc
  /\ IF is_connected
       THEN /\ spc' = "disc"
            /\ disconnects' = disconnects + 1
            /\ UNCHANGED <<conn, closes>>
       ELSE /\ conn' = close(conn)
            /\ closes' = closes + Closes(conn)
            /\ spc' = "done"
            /\ UNCHANGED disconnects
  /\ UNCHANGED <<max_requests, check_interval, pc, connected, usersTbl, statusTbl,
                 request_times, now, wake, mode, users, k, raised, remote,
                 dbErrors, netErrors, changes, cycle, grants, nreq, ev, escaped,
                 netDelay,
                 calls, tables,
                 errs, diags>>

  /\ UNCHANGED <<answered, cancelAt>>
\* that task's client.disconnect() completes; db_manager.close()
ExtStopDisconnected ==
  /\ spc = "disc"
  /\ pc \in Suspended \cup {"Stopped"}
  /\ connected' = FALSE
  /\ conn' = close(conn)
  /\ closes' = closes + Closes(conn)
  /\ spc' = "done"
  /\ UNCHANGED <<max_requests, check_interval, pc, is_running, usersTbl, statusTbl,
                 request_times, now, wake, mode, users, k, raised, remote,
                 dbErrors, netErrors, changes, cycle, grants, nreq, ev, escaped,
                 stopAt,
                 netDelay,
                 calls, disconnects, tables,
                 errs, diags>>

  /\ UNCHANGED <<answered, cancelAt>>
\* the outcome of the pending request arrives while that task's disconnect is
\* under way; the engine task is resumed with it later
ResponseArrives ==
  /\ pc = "req"
  /\ spc = "disc"
  /\ connected
  /\ ~answered
  /\ answered' = TRUE
  /\ UNCHANGED <<max_requests, check_interval, pc, is_running, conn, connected,
                 usersTbl, statusTbl, request_times, now, wake, mode, users, k,
                 raised, spc, remote, dbErrors, netErrors, changes, netDelay,
                 cycle, grants, nreq, ev, escaped, stopAt, tables, calls,
                 disconnects, closes, errs, diags, cancelAt>>

\* stop() called on an engine that was never started or has stopped; its
\* disconnect, if it makes one, completes before anything else runs
StopNotRunning ==
  /\ pc \in {"Idle", "Stopped"}
  /\ spc \in {"none", "done"}
  /\ calls < MaxStopCalls
  /\ calls' = calls + 1
  /\ is_running' = Cleared(is_running)
  /\ disconnects' = disconnects + (IF is_connected THEN 1 ELSE 0)
  /\ connected' = (IF is_connected THEN FALSE ELSE connected)
  /\ conn' = close(conn)
  /\ closes' = closes + Closes(conn)
  /\ UNCHANGED <<max_requests, check_interval, pc, usersTbl, statusTbl,
                 request_times, now, wake, mode, users, k, raised, spc, remote,
                 dbErrors, netErrors, changes, cycle, grants, nreq, ev, escaped,
                 stopAt, netDelay, tables,
                 errs, diags>>

  /\ UNCHANGED <<answered, cancelAt>>
\* ------------------------------------------------------------- cancellation
\* variant: CancelledError is caught by "except Exception"
CancelledIsException_Caught == TRUE

\* asyncio.CancelledError derives from BaseException, not from Exception:
\* the "except Exception" clauses let it pass
CancelledIsException == FALSE

\* the engine task is cancelled while it is suspended at an await of the loop:
\* CancelledError is raised there. In the interval sleep, and from inside
\* _check_all_users, it reaches "except asyncio.CancelledError: break"; in the
\* backoff sleep it is raised inside the loop's "except Exception" handler and
\* leaves _tracking_loop and start(). Either way start()'s finally clause runs.
Cancel ==
  /\ pc \in LoopSuspended
  /\ cancelAt = "none"
  /\ cancelAt' = pc
  /\ IF pc \in {"rl_sleep", "req"} /\ CancelledIsException
       THEN /\ Apply(Handle(OtherError("CancelledError"), now, <<>>))
            /\ Fail(HandleLogs(OtherError("CancelledError")))
            /\ UNCHANGED raised
       ELSE /\ pc' = "stop"
            /\ raised' = (raised \/ pc = "backoff")
            /\ NoFail
            /\ UNCHANGED <<mode, k, wake, escaped, ev>>
  /\ UNCHANGED <<max_requests, check_interval, is_running, conn, connected,
                 usersTbl, statusTbl, request_times, now, users, spc, remote,
                 dbErrors, netErrors, changes, netDelay, cycle, grants, nreq,
                 stopAt, tables, calls, disconnects, closes, answered>>

\* ---------------------------------------------------------------- environment
\* what a profile can change to: the account is renamed, or its status flips
\* between online and offline
Renamed(p) == [p EXCEPT !.username = "b"]
Flipped(p) ==
  [p EXCEPT !.status =
     IF p.status.cls = "UserStatusOnline"
       THEN [cls |-> "UserStatusOffline", was_online |-> <<SeenAt>>]
       ELSE [cls |-> "UserStatusOnline", was_online |-> NULL]]

\* an account's profile changes at the service between two polls
RemoteChange ==
  /\ pc \in {"sleeping", "backoff"}
  /\ changes < MaxChanges
  /\ changes' = changes + 1
  /\ \E i \in 1..NumUsers : \E p \in {Renamed(remote[i]), Flipped(remote[i])} :
       /\ remote[i].kind = "User"
       /\ p # remote[i]
       /\ remote' = [remote EXCEPT ![i] = p]
  /\ UNCHANGED <<max_requests, check_interval, pc, is_running, conn, connected,
                 usersTbl, statusTbl, request_times, now, wake, mode, users, k,
                 raised, spc, dbErrors, netErrors, cycle, grants, nreq, ev,
                 escaped, stopAt,
                 netDelay,
                 calls, disconnects, closes, tables,
                 errs, diags>>

  /\ UNCHANGED <<answered, cancelAt>>
Next ==
  \/ Start
  \/ Connect
  \/ LoopTest
  \/ WaitIfNeeded
  \/ RateSleepDone
  \/ Request
  \/ FloodSleepDone
  \/ UpdateUser
  \/ RecordUserStatus
  \/ AfterCheck
  \/ IntervalSleepDone
  \/ LoopExcept
  \/ BackoffDone
  \/ Stop
  \/ StopDisconnected
  \/ RemoteChange

\* the program as it is run by main(): one task, nothing else calls stop()
Spec == Init /\ [][Next]_vars

\* ... with an event loop that resumes the task whenever it can continue
SpecFair == Spec /\ WF_vars(Next)

\* the engine with another task that calls stop() once, at any await of the loop
InitStop == Init /\ remote = [i \in 1..NumUsers |-> DefaultProfile]

NextStop ==
  \/ Next
  \/ ExtStop
  \/ ExtStopDisconnected
  \/ ResponseArrives
  \/ StopNotRunning

SpecStop == InitStop /\ [][NextStop]_vars

\* the event loop resumes the engine task whenever it can continue
SpecStopFair == SpecStop /\ WF_vars(Next)

\* the engine run as one task that is cancelled once, at any await of the loop
NextCancel ==
  \/ Next
  \/ Cancel

SpecCancel == InitStop /\ [][NextCancel]_vars /\ WF_vars(Next)

\* the engine with a session whose disconnect can fail
NextStopFails ==
  \/ Next
  \/ StopDisconnectFails

SpecStopFails == InitStop /\ [][NextStopFails]_vars

\* what a database file left by earlier runs can hold
ExistingStores ==
  {[tables |-> {"users", "status"}, users |-> {}, status |-> <<>>],
   [tables |-> {"users"}, users |-> {}, status |-> <<>>],
   [tables |-> {"users", "status"},
    users |-> {[id |-> 1, username |-> "b", updated_at |-> 0]},
    status |-> <<[id |-> 1, user_id |-> 1, status |-> "offline",
                  was_online |-> IsoFormat(SeenAt), recorded_at |-> 0]>>]}

\* the engine started on a database file that exists already
InitExisting ==
  /\ max_requests = 1
  /\ check_interval \in CheckIntervals
  /\ pc = "Idle"
  /\ is_running = FALSE
  /\ conn = FALSE
  /\ connected = FALSE
  /\ \E st \in ExistingStores :
       /\ tables = st.tables
       /\ usersTbl = st.users
       /\ statusTbl = st.status
  /\ request_times = <<>>
  /\ now = 0
  /\ wake = 0
  /\ mode = "batch"
  /\ users = <<>>
  /\ k = 0
  /\ raised = FALSE
  /\ spc = "none"
  /\ remote = [i \in 1..NumUsers |-> DefaultProfile]
  /\ dbErrors = 0
  /\ netErrors = 0
  /\ changes = 0
  /\ netDelay = 0
  /\ cycle = 0
  /\ grants = <<>>
  /\ nreq = 0
  /\ ev = <<>>
  /\ escaped = FALSE
  /\ stopAt = "none"
  /\ calls = 0
  /\ disconnects = 0
  /\ closes = 0
  /\ errs = 0
  /\ diags = 0
  /\ answered = FALSE
  /\ cancelAt = "none"

SpecExisting == InitExisting /\ [][Next]_vars

\* =================================================================== claims

\* the number of grants within the trailing second (t - 1 s, t]
WindowCount(t) ==
  Cardinality({i \in 1..Len(grants) : t - grants[i] < interval})

\* C1: with max_requests_per_second = M >= 1, at every instant the number of
\* rate limiter grants within the trailing 1-second window is at most M.
C1_WindowBound ==
  max_requests >= 1 => WindowCount(now) <= max_requests

\* ------------------------------------------------- events of the current cycle
EvIdx(op) == {i \in DOMAIN ev : ev[i].op = op}
Has(op) == EvIdx(op) # {}

RECURSIVE OpIds(_, _)
\* the ids of the events op of s, in order
OpIds(s, op) ==
  IF s = <<>> THEN <<>>
  ELSE IF Head(s).op = op THEN <<Head(s).id>> \o OpIds(Tail(s), op)
       ELSE OpIds(Tail(s), op)

\* C2: no error raised inside _check_all_users (batch request, individual
\* request, rate limiter, persistence call) reaches _tracking_loop: the loop's
\* exception handler is entered only after _check_all_users has returned.
C2_NeverRaises ==
  /\ ~escaped
  /\ pc = "loop_except" => ev[Len(ev)].op = "return"

\* a cycle that returned after a failed batch request, a failed individual
\* request and a failed store write
C2_Witness ==
  /\ pc = "after_check"
  /\ \E i \in EvIdx("batch") : ev[i].res # "ok"
  /\ \E i \in EvIdx("indiv") : ev[i].res # "ok"
  /\ \E i \in DOMAIN ev : ev[i].res = "sqlerr"

\* C3: once fallback mode is entered, exactly one individual fetch attempt is
\* made per tracked id, in configured order, whatever fails.
C3_ExactlyN ==
  (pc = "after_check" /\ Has("fallback")) => OpIds(ev, "indiv") = user_ids

\* C4 as stated: fallback mode is entered whenever the batch request fails
\* with anything but a rate-limit signal, and never when it fails with one.
C4_Original ==
  \A i \in EvIdx("batch") :
    /\ ev[i].res \notin {"ok", "FloodWaitError"} => Has("fallback")
    /\ ev[i].res = "FloodWaitError" => ~Has("fallback")

\* C4 amended: fallback mode is entered whenever the batch request fails with
\* an error that is neither a rate-limit signal nor a protocol-level error
\* (RPCError), and never when it fails with one of these two.
C4_Amended ==
  \A i \in EvIdx("batch") :
    /\ ev[i].res \notin {"ok", "FloodWaitError", "RPCError"} => Has("fallback")
    /\ ev[i].res \in {"FloodWaitError", "RPCError"} => ~Has("fallback")

\* the batch request failed with an unclassified error and the fallback pass
\* has made an individual request
C4_Witness ==
  /\ \E i \in EvIdx("batch") : ev[i].res = "Exception"
  /\ Has("fallback")
  /\ Has("indiv")

\* C5: when the batch request fails with a rate-limit signal of N seconds the
\* fetch sleeps exactly N seconds and the cycle ends: no fallback pass, no
\* individual request and no store write in that cycle; a later request is
\* the batch request of a later cycle.
C5_FloodEndsCycle ==
  /\ \A j \in EvIdx("indiv") : \E i \in EvIdx("batch") : i < j
  /\ \A i \in EvIdx("batch") :
    ev[i].res = "FloodWaitError" =>
      /\ EvIdx("batch") = {i}
      /\ \A j \in DOMAIN ev : ev[j].op \notin {"fallback", "indiv", "upsert", "append", "skip"}
      /\ Len(statusTbl) = ev[1].n
      /\ \E j \in EvIdx("sleep") : ev[j].n = ev[i].n
      /\ pc = "flood_sleep" =>
           /\ wake >= now
           /\ \A j \in EvIdx("sleep") : wake = ev[j].at + ev[i].n * TicksPerSecond
      /\ \A j \in EvIdx("return") : \A m \in EvIdx("sleep") :
           ev[j].at = ev[m].at + ev[i].n * TicksPerSecond
      /\ pc \in {"flood_sleep", "after_check", "sleeping", "loop_except", "backoff",
                 "loop", "stop", "stop_disc", "Stopped"}

\* the cycle has ended after the sleep of a rate-limit signal on the batch
\* request, and the engine is in its interval sleep
C5_Witness ==
  /\ pc = "sleeping"
  /\ \E i \in EvIdx("batch") : ev[i].res = "FloodWaitError"
  /\ Has("return")

\* C6: every status row has a non-null was_online if and only if its status
\* tag is 'offline', for every status signal the service can return.
C6_WasOnlineIff ==
  \A i \in DOMAIN statusTbl :
    (statusTbl[i].was_online # NULL) <=> (statusTbl[i].status = "offline")

\* the accounts fetched in the current cycle as users (not as UserEmpty)
FetchedUsers ==
  {ev[i].id : i \in {j \in EvIdx("upsert") : remote[ev[j].id].kind = "User"}}

AppendsOf(id) == {i \in EvIdx("append") : ev[i].id = id}
OkAppends == {i \in EvIdx("append") : ev[i].res = "ok"}

\* no step updates or deletes a row of the status table
AppendOnly ==
  /\ Len(statusTbl') >= Len(statusTbl)
  /\ \A i \in DOMAIN statusTbl : statusTbl'[i] = statusTbl[i]

\* C7 as stated: each cycle appends exactly one new row for every successfully
\* fetched account, and no step updates or deletes an existing status row.
C7_OriginalState ==
  pc = "after_check" =>
    \A id \in FetchedUsers :
      Cardinality({i \in OkAppends : ev[i].id = id}) = 1

C7_Original == []C7_OriginalState /\ [][AppendOnly]_vars

\* what a cycle has appended so far: one row per committed INSERT
C7_AmendedState ==
  /\ ev # <<>> =>
       /\ Len(statusTbl) = ev[1].n + Cardinality(OkAppends)
       /\ \A i \in OkAppends :
            /\ ev[i].n > ev[1].n
            /\ statusTbl[ev[i].n].id = ev[i].n
            /\ statusTbl[ev[i].n].user_id = ev[i].id
  /\ pc = "after_check" =>
       \A id \in FetchedUsers :
         /\ Cardinality(AppendsOf(id)) = 1
         /\ \A i \in AppendsOf(id) :
              /\ ev[i].res \in {"ok", "sqlerr"}
              /\ ev[i].res = "ok" =>
                   statusTbl[ev[i].n].status = StatusStr(remote[id].status)

\* C7 amended: each cycle appends exactly one new row for every successfully
\* fetched account whose INSERT does not fail, also when its tag equals the
\* account's previous observation; a failed INSERT is rolled back and leaves
\* no row; no step updates or deletes an existing status row.
C7_Amended == []C7_AmendedState /\ [][AppendOnly]_vars

\* the second cycle has recorded an account with the tag of its previous row
C7_Witness ==
  /\ pc = "after_check"
  /\ cycle = 2
  /\ \E i \in OkAppends : \E j \in 1..ev[1].n :
       /\ statusTbl[j].user_id = ev[i].id
       /\ statusTbl[j].status = statusTbl[ev[i].n].status

\* C8: every status row refers to an account id that has a users row.
C8_AccountExists ==
  \A i \in DOMAIN statusTbl : \E r \in usersTbl : r.id = statusTbl[i].user_id

\* the ids answered by the request of event i
ItemsOf(i) ==
  IF ev[i].op = "batch" THEN {user_ids[j] : j \in DOMAIN user_ids} ELSE {ev[i].id}

\* C9: a failed update_user or record_status is rolled back, does not abort
\* the cycle and undoes nothing; the writes for every other fetched account
\* are still attempted, and committed unless they fail themselves.
C9_FailureIsolated ==
  /\ ~escaped
  /\ \A i \in DOMAIN ev : ev[i].res = "sqlerr" => \A j \in EvIdx("fallback") : j < i
  /\ ev # <<>> => Len(statusTbl) = ev[1].n + Cardinality(OkAppends)
  /\ \A i \in OkAppends : statusTbl[ev[i].n].user_id = ev[i].id
  /\ \A i \in EvIdx("upsert") :
       ev[i].res = "ok" =>
         \E r \in usersTbl : r.id = ev[i].id /\ r.updated_at >= ev[i].at
  /\ pc = "after_check" =>
       \A i \in EvIdx("batch") \cup EvIdx("indiv") :
         ev[i].res = "ok" =>
           \A id \in {x \in ItemsOf(i) : remote[x].kind = "User"} :
             /\ \E j \in EvIdx("upsert") : j > i /\ ev[j].id = id
             /\ \E j \in EvIdx("append") : j > i /\ ev[j].id = id

\* a cycle in which a write for one account failed and a later write for
\* another account was committed
C9_Witness ==
  /\ pc = "after_check"
  /\ \E i \in DOMAIN ev : \E j \in OkAppends :
       /\ ev[i].res = "sqlerr"
       /\ i < j
       /\ ev[i].id # ev[j].id

\* C10 (safety): after a stop() called during the interval sleep the engine
\* only ends that sleep, leaves the loop and stops: no cycle starts, no rate
\* limiter grant and no remote request occurs.
C10_NoCycleAfterStop ==
  /\ [](stopAt = "sleeping" =>
          pc \in {"sleeping", "loop", "stop", "stop_disc", "Stopped"})
  /\ [][stopAt = "sleeping" =>
          (grants' = grants /\ nreq' = nreq /\ cycle' = cycle)]_vars

\* C10: ... and the engine reaches Stopped (within the explored time).
C10_StopInSleep ==
  /\ C10_NoCycleAfterStop
  /\ (stopAt = "sleeping" /\ wake <= MaxTime) ~> (pc = "Stopped")

\* stop() was called during the interval sleep and the engine has stopped
C10_Witness ==
  stopAt = "sleeping" /\ pc = "Stopped" /\ spc = "done"

\* the remote requests of the current cycle
Requests == EvIdx("batch") \cup EvIdx("indiv")

\* C11: a stop() that arrives while a fetch/persist step is in flight does
\* not preempt it: the requests of that cycle are still answered and their
\* results persisted; the shutdown takes effect at the following interval sleep.
C11_StopDoesNotPreempt ==
  (stopAt \in {"rl_sleep", "req", "flood_sleep"} /\ pc = "after_check") =>
    /\ \A i \in Requests : ev[i].res # "ConnectionError"
    /\ \A i \in EvIdx("upsert") \cup EvIdx("append") : ev[i].res # "noconn"

\* C12: with check interval C, no failure and no delay, cycle k (k = 0, 1, ...)
\* starts at time k*C, so at any time T the engine has run floor(T/C)+1 cycles.
C12_CycleStarts ==
  (Quiet /\ max_requests >= 1 /\ ev # <<>>) =>
    LET C == check_interval.secs * TicksPerSecond IN
      /\ ev[1].at = (cycle - 1) * C
      /\ pc = "sleeping" =>
           /\ wake > now
           /\ \A T \in now..(wake - 1) : cycle = (T \div C) + 1

\* the fourth cycle of an undisturbed run has started at 3*C and the engine
\* is in its interval sleep
C12_Witness ==
  /\ Quiet
  /\ max_requests >= 1
  /\ pc = "sleeping"
  /\ cycle = 4
  /\ now = 3 * check_interval.secs * TicksPerSecond

\* C13: stop() on an engine that is Idle or already Stopped is a no-op: it
\* changes no state, disconnects nothing and closes nothing a second time;
\* a second such call leaves the state of the first.
C13_StopIsNoop ==
  [][calls' > calls =>
       UNCHANGED <<pc, is_running, conn, connected, disconnects, closes, tables,
                   usersTbl, statusTbl, request_times, raised>>]_vars

\* stop() was called twice on an engine that had run and stopped
C13_Witness ==
  /\ pc = "Stopped"
  /\ cycle > 0
  /\ calls = 2

\* C14: a configured maximum of 0 requests per second surfaces as an error
\* that stops the engine: no cycle completes and goes on to the interval
\* sleep, and no further cycle starts.
C14_ZeroIsConfigError ==
  max_requests = 0 => (pc \notin {"after_check", "sleeping"} /\ cycle <= 1)

CyclePositions == {"rl", "rl_sleep", "req", "flood_sleep", "upd", "rec", "after_check"}

\* the last committed upsert of each account in the current cycle
LastOkUpserts ==
  {i \in EvIdx("upsert") :
     /\ ev[i].res = "ok"
     /\ \A j \in EvIdx("upsert") : (ev[j].id = ev[i].id /\ ev[j].res = "ok") => j <= i}

\* C17: the users table holds at most one row per account id, with the
\* values of the latest successful upsert for that id, and no step deletes a
\* users row.
C17_UsersUnique ==
  /\ [](\A r1, r2 \in usersTbl : r1.id = r2.id => r1 = r2)
  /\ [](pc \in CyclePositions =>
          \A i \in LastOkUpserts :
            UserRow([id |-> ev[i].id, profile |-> remote[ev[i].id]], ev[i].at)
              \in usersTbl)
  /\ [][\A r \in usersTbl : \E q \in usersTbl' : q.id = r.id]_vars

\* the second cycle has updated the row of an account renamed since the first
C17_Witness ==
  /\ pc = "after_check"
  /\ cycle = 2
  /\ dbErrors = 0
  /\ netErrors = 0
  /\ Cardinality(usersTbl) = NumUsers
  /\ \E r \in usersTbl : r.username = "b" /\ r.updated_at > 0

\* C18: initialize() on a store that exists already leaves every users and
\* status row unchanged.
C18_InitializeIdempotent ==
  [][(pc = "Idle" /\ pc' # "Idle") =>
       /\ usersTbl' = usersTbl
       /\ statusTbl' = statusTbl
       /\ tables \subseteq tables'
       /\ pc' = "connect" => tables' = {"users", "status"}]_vars

\* initialize() has succeeded on a store that held rows of both tables
C18_Witness ==
  /\ pc = "connect"
  /\ conn
  /\ usersTbl # {}
  /\ statusTbl # <<>>

\* C19: no rate limiter grant, no remote request and no cycle occurs, and
\* is_running is never true, unless initialize() has succeeded and then the
\* session has connected in the same start() call.
C19_RunningAfterInit ==
  /\ []((is_running \/ cycle > 0 \/ grants # <<>> \/ nreq > 0) =>
          /\ tables = {"users", "status"}
          /\ ~raised
          /\ pc \notin {"Idle", "connect"})
  /\ [](is_running => (conn /\ connected))
  /\ [][(~is_running /\ is_running') => (pc = "connect" /\ conn /\ connected')]_vars

\* the first grant of a run: the store is open and the session connected
C19_Witness ==
  /\ pc = "req"
  /\ is_running
  /\ cycle = 1
  /\ nreq = 0
  /\ Len(grants) = 1

\* C20: no remote request is issued without a rate limiter grant obtained
\* since the previous remote request.
C20_GrantBeforeRequest ==
  /\ \A i \in Requests : i > 1 /\ ev[i - 1].op = "grant"
  /\ nreq <= Len(grants)
  /\ Len(grants) <= nreq + 1
  /\ pc = "req" => Len(grants) = nreq + 1

\* a cycle with a batch request and one fallback request per id, each after
\* its own grant
C20_Witness ==
  /\ pc = "after_check"
  /\ Has("batch")
  /\ Cardinality(EvIdx("indiv")) = NumUsers
  /\ Cardinality(EvIdx("grant")) = NumUsers + 1

\* the position of an id in user_ids
IdxOf(id) == CHOOSE j \in DOMAIN user_ids : user_ids[j] = id

\* the fallback pass is waiting for the grant of the id after id
AtNextId(id) ==
  /\ pc \in {"rl", "rl_sleep"}
  /\ mode = "indiv"
  /\ k = IdxOf(id) + 1

\* C21: in one cycle at most one batch request is issued and at most one
\* fallback pass runs: a failed batch request is not re-issued and no id is
\* requested twice by the fallback pass.
C21_OneBatchOneFallback ==
  /\ Cardinality(EvIdx("batch")) <= 1
  /\ Cardinality(EvIdx("fallback")) <= 1
  /\ \A i, j \in EvIdx("indiv") : ev[i].id = ev[j].id => i = j
  /\ \A j \in EvIdx("fallback") : \A i \in EvIdx("batch") : i < j
  /\ \A j \in EvIdx("return") : j = Len(ev)

\* a cycle has returned after a failed batch request and a fallback pass in
\* which a request failed as well
C21_Witness ==
  /\ pc = "after_check"
  /\ \E i \in EvIdx("batch") : ev[i].res = "Exception"
  /\ \E i \in EvIdx("indiv") : ev[i].res = "Exception"
  /\ \E i \in EvIdx("indiv") : ev[i].res = "ok"

\* C22: an RPCError is not retried within the cycle: on the batch request it
\* ends the cycle with no further request and no write; on an individual
\* request it skips that id, which is not requested again and gets no write.
C22_RpcNotRetried ==
  /\ \A i \in EvIdx("batch") :
       ev[i].res = "RPCError" =>
         /\ Requests = {i}
         /\ \A j \in DOMAIN ev : j > i => ev[j].op = "return"
         /\ Len(statusTbl) = ev[1].n
         /\ pc \in {"after_check", "sleeping", "loop_except", "backoff", "loop",
                    "stop", "stop_disc", "Stopped"}
  /\ \A i \in EvIdx("indiv") :
       ev[i].res = "RPCError" =>
         /\ \A j \in EvIdx("indiv") : ev[j].id = ev[i].id => j = i
         /\ \A j \in EvIdx("upsert") \cup EvIdx("append") \cup EvIdx("sleep") :
              ev[j].id # ev[i].id
         /\ IF i = Len(ev) THEN AtNextId(ev[i].id)
            ELSE ev[i + 1].op \in {"grant", "return"}
         /\ pc = "after_check" => OpIds(ev, "indiv") = user_ids

\* the fallback pass got an RPCError for the first id and recorded the second
C22_Witness ==
  /\ pc = "after_check"
  /\ \E i \in EvIdx("indiv") : ev[i].res = "RPCError" /\ ev[i].id = user_ids[1]
  /\ \E j \in OkAppends : ev[j].id = user_ids[2]

\* C23: in fallback mode a rate-limit signal of N seconds on the request for
\* one id suspends the pass for exactly N seconds; the pass then continues
\* with the next id: the id is not retried and no later id is skipped.
C23_FloodThenNextId ==
  \A i \in EvIdx("indiv") :
    ev[i].res = "FloodWaitError" =>
      /\ \A j \in EvIdx("indiv") : ev[j].id = ev[i].id => j = i
      /\ \A j \in EvIdx("upsert") \cup EvIdx("append") : ev[j].id # ev[i].id
      /\ i < Len(ev)
      /\ ev[i + 1].op = "sleep"
      /\ ev[i + 1].id = ev[i].id
      /\ ev[i + 1].n = ev[i].n
      /\ LET resume == ev[i + 1].at + ev[i].n * TicksPerSecond IN
           /\ IF i + 1 = Len(ev)
                THEN \/ pc = "flood_sleep" /\ wake = resume /\ now <= resume
                     \/ AtNextId(ev[i].id) /\ now = resume
                ELSE /\ ev[i + 2].op \in {"grant", "return"}
                     /\ ev[i + 2].at >= resume
                     /\ ev[i + 2].op = "return" => ev[i + 2].at = resume
      /\ pc = "after_check" => OpIds(ev, "indiv") = user_ids

\* the fallback pass slept on a rate-limit signal for the first id and then
\* recorded the second
C23_Witness ==
  /\ pc = "after_check"
  /\ \E i \in EvIdx("indiv") : ev[i].res = "FloodWaitError" /\ ev[i].id = user_ids[1]
  /\ \E j \in OkAppends : ev[j].id = user_ids[2]

\* C24: an exception that reaches the handler of _tracking_loop is followed
\* by a sleep of exactly 5 seconds, whatever the check interval, and then by
\* the loop test, which starts the next cycle if the engine is still running;
\* the exception does not end the loop.
C24_BackoffThenNextCycle ==
  /\ [](pc = "backoff" => wake = now + 5 * TicksPerSecond)
  /\ [][pc = "loop_except" => (pc' = "backoff" /\ is_running' = is_running)]_vars
  /\ [][(pc = "backoff" /\ pc' # "backoff") => (pc' = "loop" /\ now' = wake)]_vars
  /\ [][(pc = "loop" /\ pc' # "loop" /\ is_running) =>
         (pc' = "rl" /\ cycle' = cycle + 1)]_vars

\* the second cycle has started 5 seconds after the loop step of the first
\* one failed on a check interval that is no number
C24_Witness ==
  /\ ~check_interval.num
  /\ cycle = 2
  /\ pc = "rl"
  /\ ev[1].at = 5 * TicksPerSecond

\* the tag the claim assigns to a status class
C25_Tag(cls) ==
  CASE cls = "UserStatusOnline" -> "online"
    [] cls = "UserStatusOffline" -> "offline"
    [] cls = "UserStatusRecently" -> "recently"
    [] OTHER -> "unknown"

\* C25: every status signal of a user is recorded with exactly one of the
\* four tags and without raising: online, offline, recently for the three
\* known classes, unknown for every other signal and for a missing status.
C25_TagOfSignal ==
  /\ \A i \in DOMAIN statusTbl :
       statusTbl[i].status \in {"online", "offline", "recently", "unknown"}
  /\ pc \in CyclePositions =>
       /\ \A i \in OkAppends :
            statusTbl[ev[i].n].status = C25_Tag(remote[ev[i].id].status.cls)
       /\ \A i \in EvIdx("skip") : remote[ev[i].id].kind # "User"

\* a user without status has been recorded as unknown
C25_Witness ==
  /\ pc = "after_check"
  /\ \E i \in OkAppends :
       /\ remote[ev[i].id].kind = "User"
       /\ remote[ev[i].id].status.cls = "None"
       /\ statusTbl[ev[i].n].status = "unknown"

\* the store writes of the current cycle
Writes == EvIdx("upsert") \cup EvIdx("append") \cup EvIdx("skip")

\* C26: within a cycle the writes follow the order of the fetched items, and
\* the upsert of an item comes directly before its append and before any
\* write for the next item.
C26_WriteOrder ==
  /\ \A i, j \in Writes : i < j => IdxOf(ev[i].id) <= IdxOf(ev[j].id)
  /\ \A j \in EvIdx("append") :
       /\ j > 1
       /\ ev[j - 1].op = "upsert"
       /\ ev[j - 1].id = ev[j].id
  /\ \A i, j \in EvIdx("upsert") : ev[i].id = ev[j].id => i = j
  /\ \A i, j \in EvIdx("append") : ev[i].id = ev[j].id => i = j

\* a batch response has been written in full: upsert and append of every item
C26_Witness ==
  /\ pc = "after_check"
  /\ Has("batch")
  /\ dbErrors = 0
  /\ Cardinality(OkAppends) = NumUsers
  /\ Cardinality(EvIdx("upsert")) = NumUsers

\* C27: cycles do not overlap: a cycle starts only when the previous one has
\* no item left to write, every row of an earlier cycle was written before
\* the current cycle began, and no step both writes and fetches.
C27_NoOverlap ==
  /\ [][cycle' # cycle => (pc = "loop" /\ users = <<>> /\ pc' = "rl")]_vars
  /\ [][(usersTbl' # usersTbl \/ statusTbl' # statusTbl) =>
         (pc \in {"upd", "rec"} /\ grants' = grants /\ nreq' = nreq /\ cycle' = cycle)]_vars
  /\ [][(grants' # grants \/ nreq' # nreq) =>
         /\ pc \in {"rl", "rl_sleep", "req"}
         /\ users = <<>>
         /\ usersTbl' = usersTbl
         /\ statusTbl' = statusTbl]_vars
  /\ [](ev # <<>> =>
         /\ \A i \in 1..ev[1].n : statusTbl[i].recorded_at <= ev[1].at
         /\ \A i \in DOMAIN ev : ev[i].at >= ev[1].at)

\* the second cycle holds its first grant after the first cycle wrote a row
\* for every account
C27_Witness ==
  /\ cycle = 2
  /\ pc = "req"
  /\ ev[1].n = NumUsers

FailedCycle ==
  \/ Has("fallback")
  \/ Has("skip")
  \/ \E i \in Requests \cup EvIdx("upsert") \cup EvIdx("append") : ev[i].res # "ok"

\* C29: with failing cycles and nobody calling stop(), the engine does not
\* terminate or crash: the loop is never left, and after a failed cycle (or a
\* failed loop step) the next cycle starts.
C29_KeepsGoing ==
  /\ [](cycle > 0 =>
          (is_running /\ ~raised /\ pc \notin {"stop", "stop_disc", "Stopped"}))
  /\ \A c \in 1..(MaxCycles - 1) :
       (/\ cycle = c
        /\ FailedCycle \/ pc = "backoff"
        /\ pc \in {"sleeping", "backoff"}
        /\ wake <= MaxTime) ~> (cycle = c + 1)

\* two cycles in a row have failed and left no observation; the engine is in
\* its interval sleep
C29_Witness ==
  /\ cycle = 2
  /\ pc = "sleeping"
  /\ FailedCycle
  /\ statusTbl = <<>>
  /\ netErrors = 2

C31_IntervalValidated ==
  (~check_interval.num \/ check_interval.secs <= 0) => cycle = 0

\* grants of request_times that lie in the trailing second at time t
Remaining(t) ==
  {i \in 1..Len(request_times) : t - request_times[i] <= interval}

\* C32: a call of wait_if_needed suspends for exactly
\* max(0, 1 second - (now - oldest grant remaining in the trailing second))
\* when at least max_requests grants remain there, and not at all when fewer
\* remain; the suspension is never negative and never longer than 1 second.
C32_Suspension ==
  [][(pc = "rl" /\ remote' = remote /\ spc' = spc) =>
       LET n == Cardinality(Remaining(now))
           suspension == IF pc' = "rl_sleep" THEN wake' - now ELSE 0
       IN /\ pc' \in {"req", "rl_sleep"}
          /\ suspension \in 0..interval
          /\ IF n >= max_requests
               THEN LET oldest == CHOOSE t \in {request_times[i] : i \in Remaining(now)} :
                                    \A i \in Remaining(now) : t <= request_times[i]
                        want == interval - (now - oldest)
                    IN suspension = (IF want > 0 THEN want ELSE 0)
               ELSE suspension = 0]_vars

\* C33: within one cycle every tracked account gets at most one status row,
\* and the fallback pass starts only while the cycle has processed no item:
\* an error while processing an item of a batch response does not make the
\* engine fetch and record the accounts again.
C33_OneRowPerCycle ==
  /\ [](\A n \in DOMAIN user_ids : Cardinality(AppendsOf(user_ids[n])) <= 1)
  /\ [](\A j \in EvIdx("fallback") : \A i \in Writes : j < i)
  /\ [][Len(statusTbl') <= Len(statusTbl) + 1]_vars

\* the batch request succeeded, one item failed while it was processed, the
\* other one was recorded, and the cycle ended without a fallback pass
C33_Witness ==
  /\ pc = "after_check"
  /\ Has("batch")
  /\ Has("skip")
  /\ OkAppends # {}
  /\ ~Has("fallback")
  /\ nreq = cycle

\* C34: once a stop() called by another task has completed, the engine
\* issues no remote request and writes nothing to the store, also when a
\* cycle was in flight at the call.
C34_SilentAfterStop ==
  [][spc = "done" =>
       /\ ~(pc # "req" /\ pc' = "req")
       /\ usersTbl' = usersTbl
       /\ statusTbl' = statusTbl]_vars

\* C35: a cancellation delivered at any await of the loop (interval sleep,
\* rate limiter wait, rate-limit-signal sleep, pending request, backoff
\* sleep) ends the loop: no further cycle, grant, request or write, no
\* fallback pass and no backoff sleep; stop() then runs and releases the
\* session and the store.
C35_CancelEndsLoop ==
  /\ [][cancelAt' # cancelAt => (pc' = "stop" /\ ev' = ev /\ mode' = mode)]_vars
  /\ [](cancelAt # "none" => pc \in {"stop", "stop_disc", "Stopped"})
  /\ [][cancelAt # "none" =>
          /\ cycle' = cycle
          /\ grants' = grants
          /\ nreq' = nreq
          /\ usersTbl' = usersTbl
          /\ statusTbl' = statusTbl]_vars
  /\ (cancelAt # "none") ~> (pc = "Stopped" /\ ~is_running /\ ~conn /\ ~connected)

\* the task was cancelled while a request of the fallback pass was pending,
\* and the engine has stopped
C35_Witness ==
  /\ cancelAt = "req"
  /\ mode = "indiv"
  /\ pc = "Stopped"
  /\ ~conn
  /\ ~connected

\* the clock of the model has run out: the pending sleep ends after MaxTime
TimeUp ==
  /\ pc \in {"rl_sleep", "flood_sleep", "sleeping", "backoff"}
  /\ wake > MaxTime

\* C36: after another task's stop() has cleared is_running, the loop starts no
\* further cycle: it completes the step in flight, then at most one sleep (the
\* interval sleep or the backoff sleep), after which the loop test ends the
\* loop; start() then goes on to its own stop() and returns.
C36_LoopExitsAfterStop ==
  /\ [][stopAt # "none" => cycle' = cycle]_vars
  /\ [][(stopAt # "none" /\ pc \in {"sleeping", "backoff"} /\ pc' # pc) => pc' = "loop"]_vars
  /\ [][(stopAt # "none" /\ pc = "loop" /\ pc' # pc) => pc' = "stop"]_vars
  /\ (stopAt # "none") ~> (pc = "Stopped" \/ TimeUp)

\* stop() was called while the first cycle's request was pending; the cycle
\* was completed, the interval sleep was slept, and start() has returned
C36_Witness ==
  /\ stopAt = "req"
  /\ pc = "Stopped"
  /\ spc = "done"
  /\ cycle = 1
  /\ now >= check_interval.secs * TicksPerSecond
  /\ check_interval.num
  /\ ~raised



\* C37: whenever start() has finished (the loop ended, the task was
\* cancelled, or an exception was raised, also one raised by the disconnect),
\* is_running is false, the session is disconnected and the store handle is
\* closed.
C37_Released ==
  pc \in {"Stopped", "StopFailed"} => (~is_running /\ ~connected /\ ~conn)

\* C38: in every state is_running implies that the store handle is open and
\* the session connected; is_running becomes true only with both in place,
\* and no step releases either of them while is_running stays true, also
\* when stop() is called by another task or on an engine that is not running.
C38_RunningHoldsResources ==
  /\ [](is_running => (conn /\ connected))
  /\ [][(~is_running /\ is_running') => (conn' /\ connected')]_vars
  /\ [][((conn /\ ~conn') \/ (connected /\ ~connected')) => ~is_running']_vars
  /\ [][(is_running /\ spc' # spc) => ~is_running']_vars

\* another task's stop() has cleared is_running in the middle of the second
\* cycle and released nothing yet
C38_Witness ==
  /\ spc = "disc"
  /\ stopAt = "rl_sleep"
  /\ cycle = 2
  /\ ~is_running
  /\ conn
  /\ connected



\* C39: with the store handle closed (self.conn is None, as it also is before
\* initialize()), update_user and record_status log an error, return without
\* raising and change neither table: the engine goes on with the next step
\* of the cycle.
C39_NoHandleNoWrite ==
  [][(~conn /\ pc \in {"upd", "rec"}) =>
       /\ usersTbl' = usersTbl
       /\ statusTbl' = statusTbl
       /\ tables' = tables
       /\ dbErrors' = dbErrors
       /\ escaped' = escaped
       /\ raised' = raised
       /\ errs' = errs + 1
       /\ diags' = diags + 1
       /\ ev'[Len(ev) + 1].res = "noconn"
       /\ pc = "upd" => pc' = "rec"
       /\ pc = "rec" => pc' \in {"upd", "rl", "after_check"}]_vars

\* the answer to a request arrived before another task's stop() closed the
\* store; both writes of an item were then dropped and the cycle has ended
C39_Witness ==
  /\ ~conn
  /\ spc = "done"
  /\ pc = "after_check"
  /\ \E i \in EvIdx("upsert") : ev[i].res = "noconn"
  /\ \E i \in EvIdx("append") : ev[i].res = "noconn"
  /\ usersTbl = {}
  /\ statusTbl = <<>>

====
